---- MODULE Spec2Model ----
(***************************************************************************)
(* Model of the fsm package of twlvprscs/state: a Machine guarded by a     *)
(* sync.RWMutex, driven by Update, configured by WithTransitions,          *)
(* AddTransition, SetStart, Reset and SetEndStates, and read by Current.   *)
(***************************************************************************)
EXTENDS Integers, Sequences, FiniteSets, TLC

(***************************************************************************)
(* Bounds of the model.                                                    *)
(***************************************************************************)
\* threads calling into the shared Machine
NumThreads == 2
\* total number of transitions registered in one machine
MaxTrans == 2
\* number of Options handed to NewMachine
MaxOpts == 2
\* number of transitions carried by one WithTransitions option
MaxOptLen == 2
\* number of calls of NewState and State.When
MaxIds == 4
\* length of the index lists handed to the register functions
MaxIdxLen == 2
\* number of changes the calls of Close, Open and Toggle in progress may add
\* to those not yet received from changeChan
MaxPending == 2
\* largest index handed to offset
MaxIndex == 4100

Threads == 1..NumThreads

(***************************************************************************)
(* The objects the caller built before touching the machine: three states  *)
(* (NewState) and five transitions (State.When, Transition.Then).  Ids are *)
(* those mkID hands out in creation order.  NoState is the nil State.      *)
(***************************************************************************)
NoState == 0
NoThread == 0

\* machineState{id, name}: s1 and s3 are distinct objects sharing a name
machineState ==
  [ i \in 1..3 |-> [id |-> i, name |-> <<"S1", "S2", "S1">>[i]] ]

StateIds == DOMAIN machineState

Name(s) == machineState[s].name

Names == {"S1", "S2", "S9"}

Inputs == {"a", "b", "c"}

NilErr == "nil"
CtxErr == "context canceled"
NoStartErr == "machine has no start state"

\* what a TriggerFunc returns
Miss == [ok |-> FALSE, err |-> NilErr]
Hit == [ok |-> TRUE, err |-> NilErr]

\* edge{id, from, to, f}: from is set by When, to by Then (NoState: Then was
\* never called); f maps each input to the (bool, error) the guard returns
edge ==
  [ i \in 4..8 |->
      CASE i = 4 -> [id |-> 4, from |-> 1, to |-> 2,
                     f |-> [x \in Inputs |-> IF x = "a" THEN Hit ELSE Miss]]
        [] i = 5 -> [id |-> 5, from |-> 1, to |-> 3,
                     f |-> [x \in Inputs |->
                              CASE x = "a" -> Hit
                                [] x = "b" -> [ok |-> FALSE, err |-> "e1"]
                                [] OTHER -> Miss]]
        [] i = 6 -> [id |-> 6, from |-> 2, to |-> 1,
                     f |-> [x \in Inputs |->
                              CASE x = "b" -> Hit
                                [] x = "a" -> [ok |-> TRUE, err |-> "e2"]
                                [] OTHER -> Miss]]
        [] i = 7 -> [id |-> 7, from |-> 2, to |-> NoState,
                     f |-> [x \in Inputs |-> IF x = "a" THEN Hit ELSE Miss]]
        [] OTHER -> [id |-> 8, from |-> 3, to |-> 3,
                     f |-> [x \in Inputs |-> IF x = "b" THEN Hit ELSE Miss]] ]

TransIds == DOMAIN edge

From(t) == edge[t].from
To(t) == edge[t].to

\* edge.Go: delegates to the stored TriggerFunc
Go(t, x) == edge[t].f[x]

(***************************************************************************)
(* State of the machine and of its callers.                                *)
(***************************************************************************)
VARIABLES
  curr,          \* Machine.curr: id of the stored State, NoState when empty
  start,         \* Machine.start: id of the stored State, NoState when empty
  endStates,     \* Machine.endStates: [isNil, ids]
  transitions,   \* Machine.transitions: [isNil, m], m[s] = <<>> for no key s
  mu,            \* Machine.mu: [w: writer or NoThread, r: set of readers]
  constructing,  \* TRUE while NewMachine is still applying its options
  nopts,         \* number of options NewMachine has applied so far
  pc,            \* per thread: "idle", "call", "locked", "loop", "ret"
  call,          \* per thread: the operation in progress and its arguments
  loc,           \* per thread: locals of Update (curr, loop index, guards run)
  ret,           \* per thread: the values the operation returns
  pre,           \* per thread: the machine as it was when the lock was taken
  firstFrom,     \* history: source of the first transition ever registered
  firstOptFrom,  \* history: source of the first transition of the first
                 \* option that carried transitions
  designated,    \* history: state chosen by the last successful SetStart
  updated,       \* history: TRUE once some Update has been called
  lin,           \* history: Machine.curr had the calls run one at a time,
                 \* each as a whole, in the order they took the lock
  ref,           \* history: the state of the reference automaton, fed the
                 \* same inputs (not set: it is at the start state)
  overlap,       \* history: TRUE once two Update calls were in progress at
                 \* the same time
  gid,           \* the global id counter
  lock,          \* number of values held by the channel lock
  ipc,           \* per thread, in NewState or When: "idle", "send", "add",
                 \* "recv"
  iloc,          \* per thread: the object being made, the id mkID got
  log,           \* history: the calls of mkID in the order in which they
                 \* passed the send on lock, each with the id it returned
  nested,        \* per thread: the operation of the same Machine that the
                 \* guard now being evaluated by its Update has called
  reg,           \* delegate.reg
  locker,        \* number of values held by the channel delegate.locker
  changeChan,    \* delegate.changeChan: the changes whose pushChange
                 \* goroutine is blocked at the send, with their number
  runs,          \* per context handed to Run, the goroutine Run started:
                 \* "none", "running", "cancelled" (the context is, the
                 \* goroutine has not seen it yet) or "exited"
  changeMap,     \* S.changeMap: condition -> handler, NoHandler for no key
  defaultChange, \* S.defaultChange
  building,      \* TRUE while New is still applying its options
  spc,           \* per thread, in Close, Open or Toggle: "idle", "lock"
                 \* (about to take the lock), "store" (about to assign d.reg)
  scall,         \* per thread: the switchboard call in progress, or the
                 \* last one when idle
  sloc,          \* per thread: r and the changes the register function
                 \* returned, the register when the lock was taken, and (as
                 \* history) the changes it returns from linReg
  handled,       \* the change the Run loop received last and the handler
                 \* calls it made for it
  linReg,        \* history: delegate.reg had the calls run one at a time in
                 \* the order in which they took the lock
  linChan,       \* history: changeChan, had they
  before,        \* history: when the call made last is a Toggle that
                 \* repeats the call its thread made just before it, the
                 \* register that earlier call found and the changes it made
  rcall,         \* the register function last called and its arguments
  rres           \* what that call returned

mvars == <<curr, start, endStates, transitions>>
hvars == <<firstFrom, firstOptFrom, designated, updated, lin, ref, overlap>>
tvars == <<pc, call, loc, ret, pre>>
ivars == <<gid, lock, ipc, iloc, log>>
svars == <<reg, locker, changeChan, runs, changeMap, defaultChange, building,
           spc, scall, sloc, handled, linReg, linChan, before>>
rvars == <<rcall, rres>>
\* everything that is not a field of the Machine or a local of its callers
outer == <<ivars, svars, rvars, nested>>
vars == <<curr, start, endStates, transitions, mu, constructing, nopts,
          pc, call, loc, ret, pre, firstFrom, firstOptFrom, designated,
          updated, lin, ref, overlap, gid, lock, ipc, iloc, log, nested,
          reg, locker, changeChan, runs, changeMap, defaultChange, building,
          spc, scall, sloc, handled, linReg, linChan, before,
          rcall, rres>>

NoCall == [op |-> "none"]
NoLoc == [c |-> NoState, ts |-> <<>>, i |-> 0, evald |-> <<>>]
NoRet == [kind |-> "none"]
NoRef == [set |-> FALSE, state |-> NoState]
NoObj == [kind |-> "none", k |-> 0, id |-> 0]

\* the fields of a zero Machine
ZeroMachine ==
  [curr |-> NoState, start |-> NoState,
   endStates |-> [isNil |-> TRUE, ids |-> {}],
   transitions |-> [isNil |-> TRUE, m |-> [s \in StateIds |-> <<>>]]]

\* the fields of the machine now
Snapshot ==
  [curr |-> curr, start |-> start, endStates |-> endStates,
   transitions |-> transitions]

\* keys of the transitions map
Keys(tr) == {s \in StateIds : tr.m[s] # <<>>}

RECURSIVE SumLen(_, _)
SumLen(m, S) ==
  IF S = {} THEN 0
  ELSE LET s == CHOOSE x \in S : TRUE IN Len(m[s]) + SumLen(m, S \ {s})

\* number of transitions registered
Count(tr) == SumLen(tr.m, StateIds)

\* all transitions registered, in no particular order
Registered(tr) == UNION {{tr.m[s][k] : k \in 1..Len(tr.m[s])} : s \in StateIds}

\* a registration that replaces the list of the source instead of appending
RECURSIVE AppendAllOverwriting(_, _)
AppendAllOverwriting(m, ts) ==
  IF ts = <<>> THEN m
  ELSE LET t == Head(ts) IN
       AppendAllOverwriting([m EXCEPT ![From(t)] = <<t>>], Tail(ts))

\* for _, t := range transitions { m.transitions[id] = append(..., t) }
RECURSIVE AppendAll(_, _)
AppendAll(m, ts) ==
  IF ts = <<>> THEN m
  ELSE LET t == Head(ts) IN
       AppendAll([m EXCEPT ![From(t)] = Append(@, t)], Tail(ts))

(***************************************************************************)
(* The register of the switchboard package: capacity words of wordSize     *)
(* bits, bit 1 for closed.  A word is modelled by the set of the offsets   *)
(* of its bits that are 1, so that w & m == m is m \subseteq w, w |= m is   *)
(* w \cup m and w &^= m is w \ m.                                          *)
(***************************************************************************)
capacity == 64
wordSize == 64
maxReg == capacity * wordSize

Words == 0..(capacity - 1)

\* var r register: every word 0
ZeroRegister == [w \in Words |-> {}]

\* every word math.MaxUint64
registerWithAllClosed == [w \in Words |-> 0..(wordSize - 1)]

Panic == [panic |-> TRUE]

\* an offset that refuses maxReg itself
offsetStrict(idx) ==
  IF idx >= maxReg THEN Panic
  ELSE [panic |-> FALSE, idx |-> idx \div wordSize, offs |-> idx % wordSize]

\* offset panics above maxReg, else returns idx / wordSize, idx % wordSize
offset(idx) ==
  IF idx > maxReg THEN Panic
  ELSE [panic |-> FALSE, idx |-> idx \div wordSize, offs |-> idx % wordSize]

\* uint64(1 << offs): the word with the single bit offs
shift(offs) == {offs}

\* r[idx] on an array of capacity words: out of range is a run-time panic
InRange(idx) == idx \in Words

\* the loop of registerClose from its i-th iteration on
RECURSIVE registerCloseFrom(_, _, _, _)
registerCloseFrom(r, indices, i, out) ==
  IF i > Len(indices) THEN [panic |-> FALSE, r |-> r, out |-> out]
  ELSE LET o == offset(indices[i]) IN
    IF o.panic THEN Panic
    ELSE IF ~InRange(o.idx) THEN Panic
    ELSE LET shifted == shift(o.offs) IN
      registerCloseFrom([r EXCEPT ![o.idx] = @ \cup shifted], indices, i + 1,
                        IF ~(shifted \subseteq r[o.idx])
                        THEN Append(out, indices[i]) ELSE out)

\* a registerClose that sets the bits in a fresh register
registerCloseFresh(r, indices) ==
  registerCloseFrom(ZeroRegister, indices, 1, <<>>)

registerClose(r, indices) == registerCloseFrom(r, indices, 1, <<>>)

\* the loop of registerOpen from its i-th iteration on
RECURSIVE registerOpenFrom(_, _, _, _)
registerOpenFrom(r, indices, i, out) ==
  IF i > Len(indices) THEN [panic |-> FALSE, r |-> r, out |-> out]
  ELSE LET o == offset(indices[i]) IN
    IF o.panic THEN Panic
    ELSE IF ~InRange(o.idx) THEN Panic
    ELSE LET shifted == shift(o.offs) IN
      registerOpenFrom([r EXCEPT ![o.idx] = @ \ shifted], indices, i + 1,
                       IF shifted \subseteq r[o.idx]
                       THEN Append(out, indices[i]) ELSE out)

registerOpen(r, indices) == registerOpenFrom(r, indices, 1, <<>>)

\* the loop of registerToggle from its i-th iteration on
RECURSIVE registerToggleFrom(_, _, _, _, _)
registerToggleFrom(r, indices, i, closed, opened) ==
  IF i > Len(indices)
  THEN [panic |-> FALSE, r |-> r, closed |-> closed, opened |-> opened]
  ELSE LET o == offset(indices[i]) IN
    IF o.panic THEN Panic
    ELSE IF ~InRange(o.idx) THEN Panic
    ELSE LET shifted == shift(o.offs) IN
      IF ~(shifted \subseteq r[o.idx])
      THEN registerToggleFrom([r EXCEPT ![o.idx] = @ \cup shifted], indices,
                              i + 1, Append(closed, indices[i]), opened)
      ELSE registerToggleFrom([r EXCEPT ![o.idx] = @ \ shifted], indices,
                              i + 1, closed, Append(opened, indices[i]))

\* a registerToggle that returns opened, closed for closed, opened
registerToggleSwapped(r, indices) ==
  LET x == registerToggleFrom(r, indices, 1, <<>>, <<>>) IN
    IF x.panic THEN x
    ELSE [x EXCEPT !.closed = x.opened, !.opened = x.closed]

registerToggle(r, indices) == registerToggleFrom(r, indices, 1, <<>>, <<>>)

registerClosed(r, index) ==
  LET o == offset(index) IN
    IF o.panic THEN Panic
    ELSE IF ~InRange(o.idx) THEN Panic
    ELSE [panic |-> FALSE, v |-> shift(o.offs) \subseteq r[o.idx]]

registerOpened(r, index) ==
  LET o == offset(index) IN
    IF o.panic THEN Panic
    ELSE IF ~InRange(o.idx) THEN Panic
    ELSE [panic |-> FALSE, v |-> ~(shift(o.offs) \subseteq r[o.idx])]

\* the loop of registerAllClosed from its i-th iteration on
RECURSIVE registerAllClosedFrom(_, _, _)
registerAllClosedFrom(r, indices, i) ==
  IF i > Len(indices) THEN [panic |-> FALSE, v |-> TRUE]
  ELSE LET c == registerClosed(r, indices[i]) IN
    IF c.panic THEN Panic
    ELSE IF ~c.v THEN [panic |-> FALSE, v |-> FALSE]
    ELSE registerAllClosedFrom(r, indices, i + 1)

registerAllClosed(r, indices) == registerAllClosedFrom(r, indices, 1)

\* the loop of registerAllOpened from its i-th iteration on
RECURSIVE registerAllOpenedFrom(_, _, _)
registerAllOpenedFrom(r, indices, i) ==
  IF i > Len(indices) THEN [panic |-> FALSE, v |-> TRUE]
  ELSE LET c == registerOpened(r, indices[i]) IN
    IF c.panic THEN Panic
    ELSE IF ~c.v THEN [panic |-> FALSE, v |-> FALSE]
    ELSE registerAllOpenedFrom(r, indices, i + 1)

registerAllOpened(r, indices) == registerAllOpenedFrom(r, indices, 1)

NoRegisterCall == [fn |-> "none"]

ZeroRegisterCall ==
  /\ rcall = NoRegisterCall
  /\ rres = NoRegisterCall

(***************************************************************************)
(* The switchboard S and its delegate.  The conditions its callers use,    *)
(* the last of them beyond the capacity of the register; the handlers      *)
(* they register.                                                          *)
(***************************************************************************)
Conds == {0, 64, 4096}

\* change{ctx, state, closed}, for the conditions a register can hold
Changes == [state : {c \in Conds : c < maxReg}, closed : BOOLEAN]

NoHandler == "none"
\* defaultChange: func(context.Context, uint, bool) {}
NoopHandler == "noop"
Handlers == {"h1", "h2"}

NoBag == [c \in Changes |-> 0]
NoBefore ==
  [thread |-> 0, call |-> NoCall, pre |-> ZeroRegister, notes |-> <<>>]
NoSloc == [panic |-> FALSE, r |-> ZeroRegister, notes |-> <<>>,
           pre |-> ZeroRegister, lin |-> <<>>]
\* no change: the register has no condition maxReg
NoChange == [state |-> maxReg, closed |-> FALSE]
NoHandled == [change |-> NoChange, calls |-> <<>>]
\* the contexts handed to Run, one call of Run for each
RunCtxs == {"rc1"}
NoRuns == [x \in RunCtxs |-> "none"]

\* s := S{delegate: newDelegate(), defaultChange: func(...) {}, changeMap:
\* make(...)}: the locker holds its one value, nothing was sent or started
ZeroSwitchboard ==
  /\ reg = ZeroRegister
  /\ locker = 1
  /\ changeChan = NoBag
  /\ runs = NoRuns
  /\ changeMap = [c \in Conds |-> NoHandler]
  /\ defaultChange = NoopHandler
  /\ building = TRUE
  /\ spc = [t \in Threads |-> "idle"]
  /\ scall = [t \in Threads |-> NoCall]
  /\ sloc = [t \in Threads |-> NoSloc]
  /\ handled = NoHandled
  /\ linReg = ZeroRegister
  /\ linChan = NoBag
  /\ before = NoBefore

\* zero value of Machine
Init ==
  /\ curr = ZeroMachine.curr
  /\ start = ZeroMachine.start
  /\ endStates = ZeroMachine.endStates
  /\ transitions = ZeroMachine.transitions
  /\ mu = [w |-> NoThread, r |-> {}]
  /\ constructing = TRUE
  /\ nopts = 0
  /\ pc = [t \in Threads |-> "idle"]
  /\ call = [t \in Threads |-> NoCall]
  /\ loc = [t \in Threads |-> NoLoc]
  /\ ret = [t \in Threads |-> NoRet]
  /\ pre = [t \in Threads |-> ZeroMachine]
  /\ firstFrom = NoState
  /\ firstOptFrom = NoState
  /\ designated = NoState
  /\ updated = FALSE
  /\ lin = NoState
  /\ ref = NoRef
  /\ overlap = FALSE
  /\ gid = 0
  /\ lock = 0
  /\ ipc = [t \in Threads |-> "idle"]
  /\ iloc = [t \in Threads |-> NoObj]
  /\ log = <<>>
  /\ nested = [t \in Threads |-> NoCall]
  /\ ZeroSwitchboard
  /\ ZeroRegisterCall

(***************************************************************************)
(* Construction: NewMachine applies its options one after the other to a   *)
(* machine nobody else can see yet.                                        *)
(***************************************************************************)
OptionArgs == UNION {[1..n -> TransIds] : n \in 0..MaxOptLen}

\* the start state an option carrying ts stores
WithTransitionsStart(st, ts) ==
  IF Len(ts) > 0 THEN From(ts[1]) ELSE st

\* the Option returned by WithTransitions(ts...), applied to the machine
WithTransitions(ts) ==
  /\ constructing
  /\ nopts < MaxOpts
  /\ Count(transitions) + Len(ts) <= MaxTrans
  /\ transitions' = [isNil |-> FALSE, m |-> AppendAll(transitions.m, ts)]
  /\ start' = WithTransitionsStart(start, ts)
  /\ nopts' = nopts + 1
  /\ firstFrom' = IF firstFrom = NoState /\ Len(ts) > 0
                  THEN From(ts[1]) ELSE firstFrom
  /\ firstOptFrom' = IF firstOptFrom = NoState /\ Len(ts) > 0
                     THEN From(ts[1]) ELSE firstOptFrom
  /\ UNCHANGED <<curr, endStates, mu, constructing, designated, updated,
                 lin, ref, overlap>>
  /\ UNCHANGED tvars
  /\ UNCHANGED outer

\* NewMachine returns &m
NewMachine ==
  /\ constructing
  /\ constructing' = FALSE
  /\ nopts' = 0
  /\ UNCHANGED <<curr, start, endStates, transitions, mu>>
  /\ UNCHANGED tvars
  /\ UNCHANGED hvars
  /\ UNCHANGED outer

(***************************************************************************)
(* Calls.  A thread calls one operation at a time: it asks for the lock    *)
(* (pc "call"), holds it while the body runs (pc "locked", "loop"), and    *)
(* the deferred Unlock releases it once the return values are set (pc      *)
(* "ret").                                                                 *)
(***************************************************************************)
EndArgs == {<<"S1">>, <<"S2">>, <<"S2", "S9">>}

ExclusiveOps == {"Update", "SetStart", "Reset", "SetEndStates", "AddTransition"}
SharedOps == {"Current", "IsEndState", "Validate"}

Calls ==
  [op : {"Update"}, value : Inputs, cancelled : BOOLEAN]
    \cup [op : {"SetStart"}, name : Names]
    \cup [op : {"Reset"}]
    \cup [op : {"SetEndStates"}, names : EndArgs]
    \cup [op : {"AddTransition"}, t : TransIds]
    \cup [op : {"Current"}]
    \cup [op : {"IsEndState"}]
    \cup [op : {"Validate"}]

\* an Update that never looks at ctx.Done()
CtxDoneIgnored(c) == FALSE

\* select { case <-ctx.Done(): ... }: the context was cancelled before the call
CtxDone(c) == c.cancelled

\* a resolution that falls back to the first state made when none is stored
ResolveOrFirst(cu, st) ==
  IF cu # NoState THEN cu ELSE IF st # NoState THEN st ELSE 1

\* curr, falling back to start (NoState when neither is stored)
Resolve(cu, st) == IF cu # NoState THEN cu ELSE st

\* an Update that drops the error of the guard
GuardFailedIgnored(r) == FALSE

\* if err != nil
GuardFailed(r) == r.err # NilErr

\* if !success
GuardMatchedNegated(r) == ~r.ok

\* if success
GuardMatched(r) == r.ok

\* to := t.To(); if to != nil { m.curr.Store(to) }
StoreTarget(cu, t) == IF To(t) # NoState THEN To(t) ELSE cu

\* index of the first transition of ts whose guard ends the loop of Update on
\* input x (it fails or it matches), 0 when the loop runs to its end
FirstDecisive(ts, x) ==
  LET D == {k \in 1..Len(ts) :
              GuardFailed(Go(ts[k], x)) \/ GuardMatched(Go(ts[k], x))}
  IN IF D = {} THEN 0 ELSE CHOOSE k \in D : \A j \in D : k <= j

\* Machine.curr after one whole Update call c that nothing interleaves with
SeqUpdate(tr, cu, st, c) ==
  LET s == Resolve(cu, st) IN
    IF CtxDone(c) \/ s = NoState THEN cu
    ELSE LET k == FirstDecisive(tr.m[s], c.value) IN
         IF k = 0 THEN cu
         ELSE IF GuardFailed(Go(tr.m[s][k], c.value)) THEN cu
         ELSE StoreTarget(cu, tr.m[s][k])

(***************************************************************************)
(* The reference automaton of the specification: from a state, an input    *)
(* leads to the target of the first transition, in registration order,     *)
(* whose guard matches it; without a match the automaton stays.  A call    *)
(* that is cancelled, finds no state or meets a failing guard is no step.  *)
(***************************************************************************)
Matches(t, x) == Go(t, x) = Hit

FirstMatch(ts, x) ==
  LET M == {k \in 1..Len(ts) : Matches(ts[k], x)}
  IN IF M = {} THEN 0 ELSE CHOOSE k \in M : \A j \in M : k <= j

\* some guard fails on x before the first match of ts
FailsFirst(ts, x) ==
  LET k == FirstMatch(ts, x)
      n == IF k = 0 THEN Len(ts) ELSE k
  IN \E j \in 1..n : Go(ts[j], x).err # NilErr

RefUpdate(tr, rf, st, c) ==
  LET s == IF rf.set THEN rf.state ELSE st IN
    IF c.cancelled \/ s = NoState \/ FailsFirst(tr.m[s], c.value)
    THEN rf
    ELSE LET k == FirstMatch(tr.m[s], c.value) IN
         IF k = 0 THEN rf
         ELSE [set |-> TRUE, state |-> To(tr.m[s][k])]

\* a caller enters an operation of the machine NewMachine returned
Invoke(t, c) ==
  /\ ~constructing
  /\ pc[t] = "idle"
  /\ c.op = "AddTransition" => Count(transitions) < MaxTrans
  /\ pc' = [pc EXCEPT ![t] = "call"]
  /\ call' = [call EXCEPT ![t] = c]
  /\ updated' = (updated \/ c.op = "Update")
  /\ overlap' = (overlap \/ (c.op = "Update"
                               /\ \E u \in Threads : call[u].op = "Update"))
  /\ UNCHANGED <<curr, start, endStates, transitions, mu, constructing, nopts,
                 loc, ret, pre, firstFrom, firstOptFrom, designated, lin, ref>>
  /\ UNCHANGED outer

\* a Lock that does not wait for the writer to leave
CanLockIgnoringWriter == mu.r = {}

\* sync.RWMutex: Lock waits for the writer and all readers to leave
CanLock == mu.w = NoThread /\ mu.r = {}

\* sync.RWMutex: RLock waits for the writer to leave
CanRLock == mu.w = NoThread

\* m.mu.RLock() where the operation should take m.mu.Lock()
LockAsRLock(t) ==
  /\ pc[t] = "call"
  /\ call[t].op \in ExclusiveOps
  /\ mu.w = NoThread
  /\ mu' = [mu EXCEPT !.r = @ \cup {t}]
  /\ pc' = [pc EXCEPT ![t] = "locked"]
  /\ pre' = [pre EXCEPT ![t] = Snapshot]
  /\ lin' = IF call[t].op = "Update"
            THEN SeqUpdate(transitions, lin, start, call[t]) ELSE lin
  /\ ref' = IF call[t].op = "Update"
            THEN RefUpdate(transitions, ref, start, call[t]) ELSE ref
  /\ UNCHANGED <<curr, start, endStates, transitions, constructing, nopts,
                 call, loc, ret, firstFrom, firstOptFrom, designated, updated,
                 overlap>>
  /\ UNCHANGED outer

\* m.mu.Lock()
Lock(t) ==
  /\ pc[t] = "call"
  /\ call[t].op \in ExclusiveOps
  /\ CanLock
  /\ mu' = [mu EXCEPT !.w = t]
  /\ pc' = [pc EXCEPT ![t] = "locked"]
  /\ pre' = [pre EXCEPT ![t] = Snapshot]
  /\ lin' = IF call[t].op = "Update"
            THEN SeqUpdate(transitions, lin, start, call[t]) ELSE lin
  /\ ref' = IF call[t].op = "Update"
            THEN RefUpdate(transitions, ref, start, call[t]) ELSE ref
  /\ UNCHANGED <<curr, start, endStates, transitions, constructing, nopts,
                 call, loc, ret, firstFrom, firstOptFrom, designated, updated,
                 overlap>>
  /\ UNCHANGED outer

\* m.mu.RLock()
RLock(t) ==
  /\ pc[t] = "call"
  /\ call[t].op \in SharedOps
  /\ CanRLock
  /\ mu' = [mu EXCEPT !.r = @ \cup {t}]
  /\ pc' = [pc EXCEPT ![t] = "locked"]
  /\ pre' = [pre EXCEPT ![t] = Snapshot]
  /\ UNCHANGED <<curr, start, endStates, transitions, constructing, nopts,
                 call, loc, ret>>
  /\ UNCHANGED hvars
  /\ UNCHANGED outer

\* defer m.mu.Unlock() / defer m.mu.RUnlock(): runs as the operation returns
Unlock(t) ==
  /\ pc[t] = "ret"
  /\ mu' = IF call[t].op \in SharedOps
           THEN [mu EXCEPT !.r = @ \ {t}]
           ELSE [mu EXCEPT !.w = IF @ = t THEN NoThread ELSE @]
  /\ pc' = [pc EXCEPT ![t] = "idle"]
  /\ call' = [call EXCEPT ![t] = NoCall]
  /\ loc' = [loc EXCEPT ![t] = NoLoc]
  /\ ret' = [ret EXCEPT ![t] = NoRet]
  /\ pre' = [pre EXCEPT ![t] = ZeroMachine]
  /\ UNCHANGED <<curr, start, endStates, transitions, constructing, nopts>>
  /\ UNCHANGED hvars
  /\ UNCHANGED outer

\* the operation of thread t sets its return values r and is about to return
Return(t, r) ==
  /\ pc' = [pc EXCEPT ![t] = "ret"]
  /\ ret' = [ret EXCEPT ![t] = r]

UpdateRet(changed, err) == [kind |-> "update", changed |-> changed, err |-> err]

(***************************************************************************)
(* Update                                                                  *)
(***************************************************************************)
\* an Update that finds no transition to leave an end state by
LookupUnlessEnd(tr, es, c) == IF c \in es.ids THEN <<>> ELSE tr.m[c]

\* transitions, ok := m.transitions[curr.Id()]: the lookup does not consult
\* m.endStates
Lookup(tr, es, c) == tr.m[c]

\* an Update that makes the target it stores the start state as well
UpdateGoMovingStart(t) ==
  /\ pc[t] = "loop"
  /\ LET tr == loc[t].ts[loc[t].i] IN
       /\ curr' = StoreTarget(curr, tr)
       /\ start' = StoreTarget(start, tr)
       /\ Return(t, UpdateRet(GuardMatched(Go(tr, call[t].value)), NilErr))
       /\ loc' = [loc EXCEPT ![t].evald = Append(@, tr)]
  /\ UNCHANGED <<endStates, transitions, mu, constructing, nopts, call, pre>>
  /\ UNCHANGED hvars
  /\ UNCHANGED outer

\* Update up to the loop: the cancellation check, the resolution of the current
\* state and the lookup of its transitions
Update(t) ==
  /\ pc[t] = "locked"
  /\ call[t].op = "Update"
  /\ LET c == Resolve(curr, start) IN
       IF CtxDone(call[t])
       THEN /\ Return(t, UpdateRet(FALSE, CtxErr))
            /\ UNCHANGED loc
       ELSE IF c = NoState
       THEN /\ Return(t, UpdateRet(FALSE, NoStartErr))
            /\ UNCHANGED loc
       ELSE IF Lookup(transitions, endStates, c) = <<>>
       THEN /\ Return(t, UpdateRet(FALSE, NilErr))
            /\ loc' = [loc EXCEPT ![t] = [NoLoc EXCEPT !.c = c]]
       ELSE /\ pc' = [pc EXCEPT ![t] = "loop"]
            /\ loc' = [loc EXCEPT ![t] =
                         [c |-> c, ts |-> Lookup(transitions, endStates, c),
                          i |-> 1, evald |-> <<>>]]
            /\ UNCHANGED ret
  /\ UNCHANGED <<curr, start, endStates, transitions, mu, constructing, nopts,
                 call, pre>>
  /\ UNCHANGED hvars
  /\ UNCHANGED outer

\* an Update that reports a change only when the state differs
UpdateFiredIfMoved(cu, tr) == UpdateRet(To(tr) # cu, NilErr)

\* return true, nil: the transition tr fired from the state cu
UpdateFired(cu, tr) == UpdateRet(TRUE, NilErr)

\* the operations of a Machine a guard may call: each takes m.mu
LockingOps == SharedOps \cup ExclusiveOps

\* a mutex that lets the goroutine holding it in again
CanReenterAlways(op) == TRUE

\* m.mu.RLock() or m.mu.Lock() of the operation op called by a guard, on the
\* mutex the Update evaluating the guard holds: sync.RWMutex is not reentrant
CanReenter(op) == IF op \in SharedOps THEN CanRLock ELSE CanLock

\* the guard Update is about to evaluate calls an operation of the Machine
\* it belongs to
GuardCalls(t, op) ==
  /\ pc[t] = "loop"
  /\ nested[t] = NoCall
  /\ nested' = [nested EXCEPT ![t] = [op |-> op]]
  /\ UNCHANGED <<curr, start, endStates, transitions, mu, constructing, nopts>>
  /\ UNCHANGED <<tvars, hvars, ivars, svars, rvars>>

\* one iteration of the loop over the transitions: one guard is evaluated,
\* which returns once the operation it has called (if any) has the lock
UpdateGo(t) ==
  /\ pc[t] = "loop"
  /\ nested[t] = NoCall \/ CanReenter(nested[t].op)
  /\ LET tr == loc[t].ts[loc[t].i]
         r == Go(tr, call[t].value)
         ran == [loc[t] EXCEPT !.evald = Append(@, tr)]
     IN IF GuardFailed(r)
        THEN /\ Return(t, UpdateRet(FALSE, r.err))
             /\ loc' = [loc EXCEPT ![t] = ran]
             /\ UNCHANGED curr
        ELSE IF GuardMatched(r)
        THEN /\ curr' = StoreTarget(curr, tr)
             /\ Return(t, UpdateFired(loc[t].c, tr))
             /\ loc' = [loc EXCEPT ![t] = ran]
        ELSE IF loc[t].i < Len(loc[t].ts)
        THEN /\ loc' = [loc EXCEPT ![t] = [ran EXCEPT !.i = @ + 1]]
             /\ UNCHANGED <<curr, pc, ret>>
        ELSE /\ Return(t, UpdateRet(FALSE, NilErr))
             /\ loc' = [loc EXCEPT ![t] = ran]
             /\ UNCHANGED curr
  /\ UNCHANGED <<start, endStates, transitions, mu, constructing, nopts,
                 call, pre>>
  /\ UNCHANGED hvars
  /\ UNCHANGED outer

(***************************************************************************)
(* SetStart, Reset, SetEndStates, AddTransition, Current                   *)
(***************************************************************************)
\* the states SetStart can find under a name: the loop ranges over the map in
\* an order Go leaves unspecified and keeps the first key that matches
\* a SetStart that also looks at the targets of the transitions
StartCandidatesWithTargets(tr, name) ==
  {s \in StateIds : /\ Name(s) = name
                    /\ \E x \in Registered(tr) : From(x) = s \/ To(x) = s}

StartCandidates(tr, name) == {s \in Keys(tr) : Name(s) = name}

SetStart(t) ==
  /\ pc[t] = "locked"
  /\ call[t].op = "SetStart"
  /\ LET cands == StartCandidates(transitions, call[t].name) IN
       IF cands = {}
       THEN /\ Return(t, [kind |-> "error", err |-> "no state found"])
            /\ UNCHANGED <<curr, start, designated, lin, ref>>
       ELSE \E s \in cands :
              /\ start' = s
              /\ curr' = s
              /\ designated' = s
              /\ lin' = s
              /\ ref' = [set |-> TRUE, state |-> s]
              /\ Return(t, [kind |-> "error", err |-> NilErr])
  /\ UNCHANGED <<endStates, transitions, mu, constructing, nopts, call, loc,
                 pre, firstFrom, firstOptFrom, updated, overlap>>
  /\ UNCHANGED outer

\* a Reset that never finds the start state missing
StartMissingIgnored(st) == FALSE

\* starti := m.start.Load(); if starti == nil
StartMissing(st) == st = NoState

Reset(t) ==
  /\ pc[t] = "locked"
  /\ call[t].op = "Reset"
  /\ IF StartMissing(start)
     THEN /\ Return(t, [kind |-> "error", err |-> "no start state"])
          /\ UNCHANGED <<curr, lin, ref>>
     ELSE /\ curr' = start
          /\ lin' = start
          /\ ref' = [set |-> TRUE, state |-> start]
          /\ Return(t, [kind |-> "error", err |-> NilErr])
  /\ UNCHANGED <<start, endStates, transitions, mu, constructing, nopts,
                 call, loc, pre, firstFrom, firstOptFrom, designated, updated,
                 overlap>>
  /\ UNCHANGED outer

InSeq(x, q) == \E k \in 1..Len(q) : q[k] = x

\* a SetEndStates that marks nothing unless every requested name is matched
EndMarksAllOrNone(tr, K, names) ==
  LET marks == {To(x) : x \in {y \in UNION {{tr.m[s][k] :
                                               k \in 1..Len(tr.m[s])} :
                                             s \in K} :
                                 InSeq(Name(To(y)), names)}}
  IN IF \A k \in 1..Len(names) : \E s \in marks : Name(s) = names[k]
     THEN marks ELSE {}

\* targets of the transitions under the keys K whose name is requested
EndMarks(tr, K, names) ==
  {To(x) : x \in {y \in UNION {{tr.m[s][k] : k \in 1..Len(tr.m[s])} : s \in K} :
                    InSeq(Name(To(y)), names)}}

\* keys whose list holds a transition without target: tr.To().Name() on it is
\* a nil dereference
BrokenKeys(tr) ==
  {s \in Keys(tr) : \E k \in 1..Len(tr.m[s]) : To(tr.m[s][k]) = NoState}

\* slice.String(names).IfEach: index of the first name that is not valid
FirstInvalid(names, valid) ==
  IF \A k \in 1..Len(names) : names[k] \in valid THEN 0
  ELSE CHOOSE k \in 1..Len(names) :
         /\ names[k] \notin valid
         /\ \A j \in 1..(k - 1) : names[j] \in valid

SetEndStates(t) ==
  /\ pc[t] = "locked"
  /\ call[t].op = "SetEndStates"
  /\ LET names == call[t].names
         broken == BrokenKeys(transitions)
     IN IF broken # {}
        THEN \* the keys ranged over before the panic are any of the others
             \E K \in SUBSET (Keys(transitions) \ broken) :
               /\ endStates' = [isNil |-> FALSE,
                                ids |-> endStates.ids
                                          \cup EndMarks(transitions, K, names)]
               /\ Return(t, [kind |-> "panic"])
        ELSE LET marks == EndMarks(transitions, Keys(transitions), names)
                 valid == {Name(s) : s \in marks}
                 idx == FirstInvalid(names, valid)
             IN /\ endStates' = [isNil |-> FALSE,
                                 ids |-> endStates.ids \cup marks]
                /\ Return(t, [kind |-> "error",
                              err |-> IF idx = 0 THEN NilErr
                                      ELSE "invalid state: " \o names[idx]])
  /\ UNCHANGED <<curr, start, transitions, mu, constructing, nopts, call, loc,
                 pre>>
  /\ UNCHANGED hvars
  /\ UNCHANGED outer

\* an AddTransition that takes every transition for the first
NoTransitionsYetAlways(tr) == TRUE

\* if m.transitions == nil: AddTransition takes the machine to have no
\* transition yet
NoTransitionsYet(tr) == tr.isNil

\* an AddTransition that checks the source only
IncompleteSourceOnly(tr) == From(tr) = NoState

\* from := t.From(); if from == nil || t.To() == nil
Incomplete(tr) == From(tr) = NoState \/ To(tr) = NoState

AddTransition(t) ==
  /\ pc[t] = "locked"
  /\ call[t].op = "AddTransition"
  /\ LET tr == call[t].t IN
       IF Incomplete(tr)
       THEN /\ Return(t, [kind |-> "panic"])
            /\ UNCHANGED <<start, transitions, firstFrom>>
       ELSE /\ start' = IF NoTransitionsYet(transitions) THEN From(tr)
                        ELSE start
            /\ transitions' = [isNil |-> FALSE,
                               m |-> AppendAll(transitions.m, <<tr>>)]
            /\ firstFrom' = IF firstFrom = NoState THEN From(tr) ELSE firstFrom
            /\ Return(t, [kind |-> "void"])
  /\ UNCHANGED <<curr, endStates, mu, constructing, nopts, call, loc, pre,
                 firstOptFrom, designated, updated, lin, ref, overlap>>
  /\ UNCHANGED outer

Current(t) ==
  /\ pc[t] = "locked"
  /\ call[t].op = "Current"
  /\ Return(t, [kind |-> "state", state |-> Resolve(curr, start)])
  /\ UNCHANGED <<curr, start, endStates, transitions, mu, constructing, nopts,
                 call, loc, pre>>
  /\ UNCHANGED hvars
  /\ UNCHANGED outer

\* IsEndState runs under the read lock.  With no end-state map it stores an
\* empty one and returns false; else it looks up the id of m.curr alone, and
\* curr.Id() on an empty m.curr is a nil dereference
IsEndState(t) ==
  /\ pc[t] = "locked"
  /\ call[t].op = "IsEndState"
  /\ IF endStates.isNil
     THEN /\ endStates' = [isNil |-> FALSE, ids |-> {}]
          /\ Return(t, [kind |-> "bool", value |-> FALSE])
     ELSE IF curr = NoState
     THEN /\ Return(t, [kind |-> "panic"])
          /\ UNCHANGED endStates
     ELSE /\ Return(t, [kind |-> "bool", value |-> curr \in endStates.ids])
          /\ UNCHANGED endStates
  /\ UNCHANGED <<curr, start, transitions, mu, constructing, nopts, call, loc,
                 pre>>
  /\ UNCHANGED hvars
  /\ UNCHANGED outer

\* a Validate that collects the sources only
ValidateStatesSourcesOnly(tr) == {From(x) : x \in Registered(tr)}

\* sm: the states Validate collects by id, sources and targets
ValidateStates(tr) ==
  {From(x) : x \in Registered(tr)} \cup {To(x) : x \in Registered(tr)}

\* slice.String(stateNames).Unique(): the distinct names Validate collects
ValidateNames(tr) ==
  {Name(From(x)) : x \in Registered(tr)}
    \cup {Name(To(x)) : x \in Registered(tr)}

\* the transition the loop of Validate stops at under key s: the first of the
\* list that lacks its source or its target
FirstIncomplete(tr, s) ==
  tr.m[s][CHOOSE k \in 1..Len(tr.m[s]) :
            /\ Incomplete(tr.m[s][k])
            /\ \A j \in 1..(k - 1) : ~Incomplete(tr.m[s][j])]

\* Validate runs under the read lock and writes no field of the machine; the
\* loop ranges over the map in an order Go leaves unspecified, so it may stop
\* at the incomplete transition of any key that has one
Validate(t) ==
  /\ pc[t] = "locked"
  /\ call[t].op = "Validate"
  /\ LET bad == {s \in Keys(transitions) :
                  \E k \in 1..Len(transitions.m[s]) :
                    Incomplete(transitions.m[s][k])}
     IN IF start = NoState
        THEN Return(t, [kind |-> "error", err |-> "no start state set"])
        ELSE IF bad # {}
        THEN \E s \in bad :
               Return(t, [kind |-> "error",
                          err |-> IF From(FirstIncomplete(transitions, s)) = NoState
                                  THEN "transition has no from state"
                                  ELSE "transition has no to state",
                          t |-> FirstIncomplete(transitions, s)])
        ELSE IF Cardinality(ValidateNames(transitions))
                  # Cardinality(ValidateStates(transitions))
        THEN Return(t, [kind |-> "error",
                        err |-> "invalid: all state names must be unique"])
        ELSE Return(t, [kind |-> "error", err |-> NilErr])
  /\ UNCHANGED <<curr, start, endStates, transitions, mu, constructing, nopts,
                 call, loc, pre>>
  /\ UNCHANGED hvars
  /\ UNCHANGED outer

(***************************************************************************)
(* Identifiers.  NewState and State.When take the id of the object they    *)
(* make from mkID, which sends on the channel lock (capacity LockCap),     *)
(* adds one to gid atomically and receives from lock as it returns.        *)
(***************************************************************************)
\* var lock = make(chan struct{}, 1)
LockCap == 1

fsmvars == <<curr, start, endStates, transitions, mu, constructing, nopts>>

\* number of calls of mkID made so far, returned or not
IdCalls == Len(log) + Cardinality({t \in Threads : ipc[t] = "send"})

\* a thread enters NewState or When, which calls mkID
MakeObject(t, kind) ==
  /\ ipc[t] = "idle"
  /\ IdCalls < MaxIds
  /\ ipc' = [ipc EXCEPT ![t] = "send"]
  /\ iloc' = [iloc EXCEPT ![t] = [NoObj EXCEPT !.kind = kind]]
  /\ UNCHANGED <<gid, lock, log>>
  /\ UNCHANGED <<fsmvars, tvars, hvars, nested, svars, rvars>>

\* s := machineState{id: mkID(), name: name}
NewState(t) == MakeObject(t, "state")

\* return &edge{id: mkID(), from: s, f: f, desc: desc}
When(t) == MakeObject(t, "edge")

\* a send that never blocks
CanSendAlways == TRUE

\* a send on a buffered channel blocks while the buffer is full
CanSend == lock < LockCap

\* lock <- struct{}{}
mkIDSend(t) ==
  /\ ipc[t] = "send"
  /\ CanSend
  /\ lock' = lock + 1
  /\ log' = Append(log, [kind |-> iloc[t].kind, id |-> 0, done |-> FALSE])
  /\ iloc' = [iloc EXCEPT ![t].k = Len(log) + 1]
  /\ ipc' = [ipc EXCEPT ![t] = "add"]
  /\ UNCHANGED gid
  /\ UNCHANGED <<fsmvars, tvars, hvars, nested, svars, rvars>>

\* id := atomic.AddUint64(&gid, 1): one indivisible step that returns the new
\* value (MaxIds is far below 2^64, the counter does not wrap)
mkIDAdd(t) ==
  /\ ipc[t] = "add"
  /\ gid' = gid + 1
  /\ iloc' = [iloc EXCEPT ![t].id = gid']
  /\ log' = [log EXCEPT ![iloc[t].k] = [@ EXCEPT !.id = gid', !.done = TRUE]]
  /\ ipc' = [ipc EXCEPT ![t] = "recv"]
  /\ UNCHANGED lock
  /\ UNCHANGED <<fsmvars, tvars, hvars, nested, svars, rvars>>

\* defer func() { <-lock }(), then the caller stores the id in its object
mkIDRecv(t) ==
  /\ ipc[t] = "recv"
  /\ lock' = lock - 1
  /\ ipc' = [ipc EXCEPT ![t] = "idle"]
  /\ iloc' = [iloc EXCEPT ![t] = NoObj]
  /\ UNCHANGED <<gid, log>>
  /\ UNCHANGED <<fsmvars, tvars, hvars, nested, svars, rvars>>

(***************************************************************************)
(* Specifications                                                          *)
(***************************************************************************)
\* Spec: NewMachine builds the machine from any options, then one caller
\* drives it with any sequence of calls
Caller == 1

Next ==
  \/ \E ts \in OptionArgs : WithTransitions(ts)
  \/ NewMachine
  \/ \E c \in Calls : Invoke(Caller, c)
  \/ Lock(Caller)
  \/ RLock(Caller)
  \/ Update(Caller)
  \/ UpdateGo(Caller)
  \/ SetStart(Caller)
  \/ Reset(Caller)
  \/ SetEndStates(Caller)
  \/ AddTransition(Caller)
  \/ Current(Caller)
  \/ IsEndState(Caller)
  \/ Validate(Caller)
  \/ Unlock(Caller)

Spec == Init /\ [][Next]_vars

\* SpecConc: the machine NewMachine(WithTransitions(ts...)) returned is shared
\* by all threads, which call into it in any interleaving
ConcOptions == {<<4>>}

ConcCalls ==
  [op : {"Update"}, value : {"a", "b"}, cancelled : {FALSE}]
    \cup [op : {"SetStart"}, name : {"S1"}]
    \cup [op : {"Reset"}]
    \cup [op : {"SetEndStates"}, names : {<<"S2">>}]
    \cup [op : {"AddTransition"}, t : {5}]
    \cup [op : {"IsEndState"}]

InitConc ==
  \E ts \in ConcOptions :
    /\ curr = NoState
    /\ start = WithTransitionsStart(NoState, ts)
    /\ endStates = ZeroMachine.endStates
    /\ transitions = [isNil |-> FALSE,
                      m |-> AppendAll(ZeroMachine.transitions.m, ts)]
    /\ mu = [w |-> NoThread, r |-> {}]
    /\ constructing = FALSE
    /\ nopts = 0
    /\ pc = [t \in Threads |-> "idle"]
    /\ call = [t \in Threads |-> NoCall]
    /\ loc = [t \in Threads |-> NoLoc]
    /\ ret = [t \in Threads |-> NoRet]
    /\ pre = [t \in Threads |-> ZeroMachine]
    /\ firstFrom = From(ts[1])
    /\ firstOptFrom = From(ts[1])
    /\ designated = NoState
    /\ updated = FALSE
    /\ lin = NoState
    /\ ref = NoRef
    /\ overlap = FALSE
    /\ gid = 0
    /\ lock = 0
    /\ ipc = [t \in Threads |-> "idle"]
    /\ iloc = [t \in Threads |-> NoObj]
    /\ log = <<>>
    /\ nested = [t \in Threads |-> NoCall]
    /\ ZeroSwitchboard
    /\ ZeroRegisterCall

NextConc ==
  \/ \E t \in Threads : \E c \in ConcCalls : Invoke(t, c)
  \/ \E t \in Threads : Lock(t)
  \/ \E t \in Threads : RLock(t)
  \/ \E t \in Threads : Update(t)
  \/ \E t \in Threads : UpdateGo(t)
  \/ \E t \in Threads : SetStart(t)
  \/ \E t \in Threads : Reset(t)
  \/ \E t \in Threads : SetEndStates(t)
  \/ \E t \in Threads : AddTransition(t)
  \/ \E t \in Threads : IsEndState(t)
  \/ \E t \in Threads : Unlock(t)

SpecConc == InitConc /\ [][NextConc]_vars

\* SpecReent: as SpecConc, with Updates whose guards may call back into the
\* machine
ReentCalls == [op : {"Update"}, value : {"a", "b"}, cancelled : {FALSE}]

NextReent ==
  \/ \E t \in Threads : \E c \in ReentCalls : Invoke(t, c)
  \/ \E t \in Threads : Lock(t)
  \/ \E t \in Threads : Update(t)
  \/ \E t \in Threads : \E op \in LockingOps : GuardCalls(t, op)
  \/ \E t \in Threads : UpdateGo(t)
  \/ \E t \in Threads : Unlock(t)

SpecReent == InitConc /\ [][NextReent]_vars

\* SpecIds: all threads make states and transitions in any interleaving
NextIds ==
  \/ \E t \in Threads : NewState(t)
  \/ \E t \in Threads : When(t)
  \/ \E t \in Threads : mkIDSend(t)
  \/ \E t \in Threads : mkIDAdd(t)
  \/ \E t \in Threads : mkIDRecv(t)

SpecIds == Init /\ [][NextIds]_vars

(***************************************************************************)
(* SpecReg: the functions of register.go applied to arguments drawn from   *)
(* the registers RegValues, the index lists IndexLists and the indices     *)
(* 0..MaxIndex; the functions are pure, one call per behaviour.            *)
(***************************************************************************)
\* indices at the borders of the words and of the register
TestIdx == {0, 1, 63, 64, 4095, 4096, 4097}

IndexLists == UNION {[1..n -> TestIdx] : n \in 0..MaxIdxLen}

\* the register whose closed indices are those of S
RegOf(S) ==
  [w \in Words |-> {b \in 0..(wordSize - 1) : w * wordSize + b \in S}]

RegValues ==
  {RegOf(S) : S \in SUBSET {i \in TestIdx : i < maxReg}}
    \cup {registerWithAllClosed}

Returns(c, r) ==
  /\ rcall' = c
  /\ rres' = r
  /\ UNCHANGED <<fsmvars, tvars, hvars, nested, ivars, svars>>

CallOffset ==
  /\ rcall = NoRegisterCall
  /\ \E n \in 0..MaxIndex :
      Returns([fn |-> "offset", idx |-> n], offset(n))

CallRegisterClose ==
  /\ rcall = NoRegisterCall
  /\ \E r \in RegValues, I \in IndexLists :
      Returns([fn |-> "registerClose", r |-> r, indices |-> I],
              registerClose(r, I))

CallRegisterOpen ==
  /\ rcall = NoRegisterCall
  /\ \E r \in RegValues, I \in IndexLists :
      Returns([fn |-> "registerOpen", r |-> r, indices |-> I],
              registerOpen(r, I))

CallRegisterToggle ==
  /\ rcall = NoRegisterCall
  /\ \E r \in RegValues, I \in IndexLists :
      Returns([fn |-> "registerToggle", r |-> r, indices |-> I],
              registerToggle(r, I))

CallRegisterAllClosed ==
  /\ rcall = NoRegisterCall
  /\ \E r \in RegValues, I \in IndexLists :
      Returns([fn |-> "registerAllClosed", r |-> r, indices |-> I],
              registerAllClosed(r, I))

CallRegisterAllOpened ==
  /\ rcall = NoRegisterCall
  /\ \E r \in RegValues, I \in IndexLists :
      Returns([fn |-> "registerAllOpened", r |-> r, indices |-> I],
              registerAllOpened(r, I))

NextReg ==
  \/ CallOffset
  \/ CallRegisterClose
  \/ CallRegisterOpen
  \/ CallRegisterToggle
  \/ CallRegisterAllClosed
  \/ CallRegisterAllOpened

SpecReg == Init /\ [][NextReg]_vars

(***************************************************************************)
(* The switchboard: New with its options, Close, Open and Toggle, Run and  *)
(* the goroutine it starts.                                                *)
(***************************************************************************)
sbouter == <<fsmvars, tvars, hvars, nested, ivars, rvars>>

DefaultOpt(h) == [opt |-> "WithDefaultChangeHandler", handler |-> h]
SingleOpt(h, c) ==
  [opt |-> "WithSingleStateChangeHandler", handler |-> h, condition |-> c]
AllClosedOpt == [opt |-> "WithAllStatesClosed"]

\* the option lists handed to New
SbOptLists ==
  { <<>>,
    <<DefaultOpt("h2")>>,
    <<SingleOpt("h1", 0)>>,
    <<SingleOpt("h1", 0), DefaultOpt("h2")>>,
    <<SingleOpt("h1", 0), SingleOpt("h2", 0)>>,
    <<AllClosedOpt, SingleOpt("h1", 64)>> }

\* for _, f := range opts { f(&s) }, from the i-th option on
RECURSIVE ApplyOptions(_, _, _)
ApplyOptions(s, opts, i) ==
  IF i > Len(opts) THEN s
  ELSE LET o == opts[i] IN
    ApplyOptions(
      IF o.opt = "WithDefaultChangeHandler"
      THEN [s EXCEPT !.defaultChange = o.handler]
      ELSE IF o.opt = "WithSingleStateChangeHandler"
      THEN [s EXCEPT !.changeMap[o.condition] = o.handler]
      ELSE [s EXCEPT !.reg = registerWithAllClosed],
      opts, i + 1)

\* New(opts...): the options are applied in order to the fresh S
New(opts) ==
  /\ building
  /\ LET s == ApplyOptions([defaultChange |-> defaultChange,
                            changeMap |-> changeMap, reg |-> reg], opts, 1) IN
       /\ defaultChange' = s.defaultChange
       /\ changeMap' = s.changeMap
       /\ reg' = s.reg
       /\ linReg' = s.reg
  /\ building' = FALSE
  /\ UNCHANGED <<locker, changeChan, runs, spc, scall, sloc, handled,
                 linChan, before>>
  /\ UNCHANGED sbouter

\* the index lists handed to Close, Open and Toggle
SbArgs == {<<0>>, <<0, 64>>, <<0, 0>>, <<64, 4096>>}

SbCalls ==
  [op : {"Close", "Open", "Toggle"}, indices : SbArgs, cancelled : {FALSE}]
    \cup [op : {"Close", "Open", "Toggle"}, indices : {<<0, 64>>},
          cancelled : {TRUE}]

RECURSIVE Total(_, _)
Total(f, S) ==
  IF S = {} THEN 0
  ELSE LET x == CHOOSE y \in S : TRUE IN f[x] + Total(f, S \ {x})

\* the pushChange goroutines blocked at their send
Pending == Total(changeChan, Changes)

\* the changes the calls in progress may still hand to pushChange
InFlight ==
  Total([t \in Threads |-> IF spc[t] = "idle" THEN 0
                           ELSE Len(scall[t].indices)], Threads)

\* a select that never finds the context done
DoneNever(cancelled) == FALSE

\* select { case <-ctx.Done(): return; default: }
Done(cancelled) == cancelled

\* Close, Open, Toggle up to the lock: a call whose context is done returns
SbInvoke(t, c) ==
  /\ ~building
  /\ spc[t] = "idle"
  /\ Pending + InFlight + Len(c.indices) <= MaxPending
  /\ scall' = [scall EXCEPT ![t] = c]
  /\ sloc' = [sloc EXCEPT ![t] = NoSloc]
  /\ spc' = [spc EXCEPT ![t] = IF Done(c.cancelled) THEN "idle" ELSE "lock"]
  /\ UNCHANGED <<reg, locker, changeChan, runs, changeMap, defaultChange,
                 building, handled, linReg,
                 linChan>>
  /\ before' = IF c = scall[t] /\ c.op = "Toggle" /\ ~c.cancelled
                THEN [thread |-> t, call |-> c, pre |-> sloc[t].pre,
                      notes |-> sloc[t].notes]
                ELSE NoBefore
  /\ UNCHANGED sbouter

\* go d.pushChange(ctx, changes[i], closed) for each i
RECURSIVE Notes(_, _, _)
Notes(changes, closed, i) ==
  IF i > Len(changes) THEN <<>>
  ELSE <<[state |-> changes[i], closed |-> closed]>>
         \o Notes(changes, closed, i + 1)

\* a Toggle that closes the conditions whatever state they are in
RegisterOpClosing(c, r) ==
  LET x == registerClose(r, c.indices) IN
    IF c.op = "Open"
    THEN LET y == registerOpen(r, c.indices) IN
      IF y.panic THEN [panic |-> TRUE, r |-> r, notes |-> <<>>]
      ELSE [panic |-> FALSE, r |-> y.r, notes |-> Notes(y.out, FALSE, 1)]
    ELSE IF x.panic THEN [panic |-> TRUE, r |-> r, notes |-> <<>>]
    ELSE [panic |-> FALSE, r |-> x.r, notes |-> Notes(x.out, TRUE, 1)]

\* r, changes = registerX(reg, indices...) and the goroutines the call will
\* start for the changes; a panic leaves the function before d.reg = r
RegisterOp(c, r) ==
  IF c.op = "Close"
  THEN LET x == registerClose(r, c.indices) IN
    IF x.panic THEN [panic |-> TRUE, r |-> r, notes |-> <<>>]
    ELSE [panic |-> FALSE, r |-> x.r, notes |-> Notes(x.out, TRUE, 1)]
  ELSE IF c.op = "Open"
  THEN LET x == registerOpen(r, c.indices) IN
    IF x.panic THEN [panic |-> TRUE, r |-> r, notes |-> <<>>]
    ELSE [panic |-> FALSE, r |-> x.r, notes |-> Notes(x.out, FALSE, 1)]
  ELSE LET x == registerToggle(r, c.indices) IN
    IF x.panic THEN [panic |-> TRUE, r |-> r, notes |-> <<>>]
    ELSE [panic |-> FALSE, r |-> x.r,
          notes |-> Notes(x.closed, TRUE, 1) \o Notes(x.opened, FALSE, 1)]

\* a loop that starts a goroutine for the first change only
PushedFirst(bag, notes, i) ==
  IF notes = <<>> THEN bag ELSE [bag EXCEPT ![notes[1]] = @ + 1]

\* for i := 0; i < len(changes); i++ { go d.pushChange(...) }: each
\* goroutine blocks at its send on the unbuffered changeChan
RECURSIVE Pushed(_, _, _)
Pushed(bag, notes, i) ==
  IF i > Len(notes) THEN bag
  ELSE Pushed([bag EXCEPT ![notes[i]] = @ + 1], notes, i + 1)

\* a lock that is handed out whether or not the value is there
CanReceiveAlways == TRUE

\* <-d.locker: the receive needs a value in the channel
CanReceive == locker > 0

\* defer d.lock()...; r, changes = registerX(d.reg, indices...)
SbLock(t) ==
  /\ spc[t] = "lock"
  /\ CanReceive
  /\ locker' = locker - 1
  /\ LET res == RegisterOp(scall[t], reg)
         lres == RegisterOp(scall[t], linReg) IN
       /\ sloc' = [sloc EXCEPT ![t] =
                     [panic |-> res.panic, r |-> res.r, notes |-> res.notes,
                      pre |-> reg, lin |-> lres.notes]]
       /\ linReg' = lres.r
       /\ linChan' = Pushed(linChan, lres.notes, 1)
  /\ spc' = [spc EXCEPT ![t] = "store"]
  /\ UNCHANGED <<reg, changeChan, runs, changeMap, defaultChange, building,
                 scall, handled, before>>
  /\ UNCHANGED sbouter

\* a call that sends its changes itself: it returns once a goroutine of Run
\* is there to receive them
SbStoreWaiting(t) ==
  /\ spc[t] = "store"
  /\ sloc[t].notes = <<>> \/ \E x \in RunCtxs : runs[x] = "running"
  /\ reg' = IF sloc[t].panic THEN reg ELSE sloc[t].r
  /\ changeChan' = Pushed(changeChan, sloc[t].notes, 1)
  /\ locker' = locker + 1
  /\ spc' = [spc EXCEPT ![t] = "idle"]
  /\ UNCHANGED <<runs, changeMap, defaultChange, building, scall, sloc,
                 handled, linReg, linChan, before>>
  /\ UNCHANGED sbouter

\* d.reg = r; go d.pushChange(...) for each change; the deferred unlock.
\* Each goroutine blocks at its send on the unbuffered changeChan
SbStore(t) ==
  /\ spc[t] = "store"
  /\ reg' = IF sloc[t].panic THEN reg ELSE sloc[t].r
  /\ changeChan' = Pushed(changeChan, sloc[t].notes, 1)
  /\ locker' = locker + 1
  /\ spc' = [spc EXCEPT ![t] = "idle"]
  /\ UNCHANGED <<runs, changeMap, defaultChange, building, scall, sloc,
                 handled, linReg, linChan, before>>
  /\ UNCHANGED sbouter

\* Run(ctx): go func(ctx, s) { for { select { ... } } }(ctx, s)
Run(x) ==
  /\ ~building
  /\ runs[x] = "none"
  /\ runs' = [runs EXCEPT ![x] = "running"]
  /\ UNCHANGED <<reg, locker, changeChan, changeMap, defaultChange, building,
                 spc, scall, sloc, handled, linReg,
                 linChan, before>>
  /\ UNCHANGED sbouter

\* the caller of Run cancels the context it gave
CancelRun(x) ==
  /\ runs[x] = "running"
  /\ runs' = [runs EXCEPT ![x] = "cancelled"]
  /\ UNCHANGED <<reg, locker, changeChan, changeMap, defaultChange, building,
                 spc, scall, sloc, handled, linReg,
                 linChan, before>>
  /\ UNCHANGED sbouter

\* case <-ctx.Done(): return
RunExit(x) ==
  /\ runs[x] = "cancelled"
  /\ runs' = [runs EXCEPT ![x] = "exited"]
  /\ UNCHANGED <<reg, locker, changeChan, changeMap, defaultChange, building,
                 spc, scall, sloc, handled, linReg,
                 linChan, before>>
  /\ UNCHANGED sbouter

\* a dispatch that goes on to the default handler after the single one
DispatchBoth(c) ==
  IF changeMap[c.state] # NoHandler
  THEN << [handler |-> changeMap[c.state], closed |-> c.closed],
          [handler |-> defaultChange, state |-> c.state,
           closed |-> c.closed] >>
  ELSE << [handler |-> defaultChange, state |-> c.state,
           closed |-> c.closed] >>

\* if f, ok := s.changeMap[c.state]; ok { f(c.ctx, c.closed); continue }
\* s.defaultChange(c.ctx, c.state, c.closed)
Dispatch(c) ==
  IF changeMap[c.state] # NoHandler
  THEN << [handler |-> changeMap[c.state], closed |-> c.closed] >>
  ELSE << [handler |-> defaultChange, state |-> c.state,
           closed |-> c.closed] >>

\* case c := <-s.delegate.changeChan, in a goroutine of Run that has not
\* returned: select may take this case although the context is done too
Deliver(x, c) ==
  /\ runs[x] \in {"running", "cancelled"}
  /\ changeChan[c] > 0
  /\ changeChan' = [changeChan EXCEPT ![c] = @ - 1]
  /\ handled' = [change |-> c, calls |-> Dispatch(c)]
  /\ UNCHANGED <<reg, locker, runs, changeMap, defaultChange, building, spc,
                 scall, sloc, linReg, before>>
  /\ linChan' = [linChan EXCEPT ![c] = @ - 1]
  /\ UNCHANGED sbouter

\* SpecSb: one caller builds a switchboard, runs it and uses it
NextSb ==
  \/ \E opts \in SbOptLists : New(opts)
  \/ \E c \in SbCalls : SbInvoke(Caller, c)
  \/ SbLock(Caller)
  \/ SbStore(Caller)
  \/ \E x \in RunCtxs : Run(x)
  \/ \E x \in RunCtxs : CancelRun(x)
  \/ \E x \in RunCtxs : RunExit(x)
  \/ \E x \in RunCtxs : \E c \in Changes : Deliver(x, c)

SpecSb == Init /\ [][NextSb]_vars


\* SpecSbConc: the switchboard New() returned is shared by all threads
ConcSbCalls ==
  [op : {"Close", "Open", "Toggle"}, indices : {<<0>>, <<64>>, <<0, 64>>},
   cancelled : {FALSE}]

NextSbConc ==
  \/ New(<<>>)
  \/ \E t \in Threads : \E c \in ConcSbCalls : SbInvoke(t, c)
  \/ \E t \in Threads : SbLock(t)
  \/ \E t \in Threads : SbStore(t)

SpecSbConc == Init /\ [][NextSbConc]_vars

\* SpecSbFair: one caller uses the switchboard New() returned and its
\* goroutine is scheduled; nothing is assumed of Run, of its context or of
\* the goroutine that receives the changes
NextSbFair ==
  \/ New(<<>>)
  \/ \E c \in ConcSbCalls : SbInvoke(Caller, c)
  \/ SbLock(Caller)
  \/ SbStore(Caller)
  \/ \E x \in RunCtxs : Run(x)
  \/ \E x \in RunCtxs : CancelRun(x)
  \/ \E x \in RunCtxs : RunExit(x)
  \/ \E x \in RunCtxs : \E c \in Changes : Deliver(x, c)

SpecSbFair ==
  /\ Init
  /\ [][NextSbFair]_vars
  /\ WF_vars(SbLock(Caller))
  /\ WF_vars(SbStore(Caller))

(***************************************************************************)
(* Properties                                                              *)
(***************************************************************************)
\* thread t is about to return from op: its return values are set
Returning(t, op) == pc[t] = "ret" /\ call[t].op = op

\* the state Current() reports for the machine fields cu, st
CurrentOf(cu, st) == IF cu # NoState THEN cu ELSE st

\* the transitions Update of thread t found for the state it started from
Outgoing(t) ==
  pre[t].transitions.m[CurrentOf(pre[t].curr, pre[t].start)]

\* thread t returns from an Update that had a live context and a current state
UpdateRan(t) ==
  /\ Returning(t, "Update")
  /\ ~call[t].cancelled
  /\ CurrentOf(pre[t].curr, pre[t].start) # NoState

\* C1: an Update with a live context runs the guards of the current state's
\* transitions in registration order up to the first that returns (true, nil),
\* makes that transition's target the current state, returns (true, nil) and
\* runs no later guard (a guard failing before the match is case C4)
C1_FirstMatchWins ==
  \A t \in Threads :
    (UpdateRan(t) /\ FirstMatch(Outgoing(t), call[t].value) # 0
       /\ ~FailsFirst(Outgoing(t), call[t].value))
    => LET k == FirstMatch(Outgoing(t), call[t].value) IN
         /\ loc[t].evald = SubSeq(Outgoing(t), 1, k)
         /\ CurrentOf(curr, start) = To(Outgoing(t)[k])
         /\ ret[t] = UpdateRet(TRUE, NilErr)

\* C2: along any sequence of Update calls the current state after each call and
\* the changed flag of each call are those of the reference automaton
C2_RefinesReference ==
  \A t \in Threads :
    (UpdateRan(t) /\ ~FailsFirst(Outgoing(t), call[t].value))
    => /\ CurrentOf(curr, start) = (IF ref.set THEN ref.state ELSE start)
       /\ ret[t].changed = (FirstMatch(Outgoing(t), call[t].value) # 0)

\* C3: an Update whose context is already cancelled evaluates no guard,
\* returns (false, cancellation error) and leaves Current() as it was
C3_CancelledUpdate ==
  \A t \in Threads :
    (call[t].op = "Update" /\ call[t].cancelled)
    => /\ pc[t] # "loop"
       /\ loc[t].evald = <<>>
       /\ pc[t] = "ret"
          => /\ ret[t] = UpdateRet(FALSE, CtxErr)
             /\ CurrentOf(curr, start) = CurrentOf(pre[t].curr, pre[t].start)

\* a cancelled Update returns from a state whose first transition matches
C3_Witness ==
  \E t \in Threads :
    /\ Returning(t, "Update")
    /\ call[t].cancelled
    /\ CurrentOf(curr, start) # NoState
    /\ FirstMatch(transitions.m[CurrentOf(curr, start)], call[t].value) = 1

\* the guards Update of thread t has evaluated that returned an error
FailedAt(t) ==
  {k \in 1..Len(loc[t].evald) : Go(loc[t].evald[k], call[t].value).err # NilErr}

\* C4: when a guard returns an error, Update evaluates no further guard,
\* returns (false, that error) and leaves every field of the machine unchanged
C4_GuardError ==
  \A t \in Threads :
    (call[t].op = "Update" /\ FailedAt(t) # {})
    => /\ FailedAt(t) = {Len(loc[t].evald)}
       /\ pc[t] = "ret"
       /\ ret[t] = UpdateRet(FALSE,
                     Go(loc[t].evald[Len(loc[t].evald)], call[t].value).err)
       /\ Snapshot = pre[t]

\* a guard failed although a later transition of the same state matches
C4_Witness ==
  \E t \in Threads :
    /\ Returning(t, "Update")
    /\ FailedAt(t) # {}
    /\ Len(loc[t].evald) < Len(Outgoing(t))
    /\ \E k \in (Len(loc[t].evald) + 1)..Len(Outgoing(t)) :
         Matches(Outgoing(t)[k], call[t].value)

\* no guard of the transitions ts matches or fails on input x
NoMatch(ts, x) == \A k \in 1..Len(ts) : Go(ts[k], x) = Miss

\* C5: an Update whose input matches no guard of the current state (which may
\* have no transition at all) returns (false, nil) and changes nothing, so any
\* number of such calls in a row leaves Current() where it was
C5_NoMatchIdempotent ==
  \A t \in Threads :
    (UpdateRan(t) /\ NoMatch(Outgoing(t), call[t].value))
    => /\ ret[t] = UpdateRet(FALSE, NilErr)
       /\ Snapshot = pre[t]
       /\ CurrentOf(curr, start) = CurrentOf(pre[t].curr, pre[t].start)

\* an Update ran every guard of a state with two transitions, none matched
C5_Witness ==
  \E t \in Threads :
    /\ UpdateRan(t)
    /\ NoMatch(Outgoing(t), call[t].value)
    /\ Len(loc[t].evald) = 2

\* thread t holds the lock of the machine or is returning with it
InCrit(t) == pc[t] \in {"locked", "loop", "ret"}

\* C6: from taking the lock to returning, guard evaluations included, an
\* Update excludes every other Update, SetStart, Reset, SetEndStates and
\* AddTransition on the machine
C6_UpdateExcludes ==
  \A t, u \in Threads :
    (t # u /\ InCrit(t) /\ call[t].op = "Update")
    => ~(InCrit(u) /\ call[u].op \in ExclusiveOps)

\* an Update is between two guard evaluations while another thread has called
\* an exclusive operation and waits for the lock
C6_Witness ==
  \E t, u \in Threads :
    /\ t # u
    /\ pc[t] = "loop"
    /\ Len(loc[t].evald) >= 1
    /\ pc[u] = "call"
    /\ call[u].op \in ExclusiveOps

C8_CurrentIsStart ==
  \A t \in Threads :
    (Returning(t, "Current") /\ ~updated /\ Count(transitions) >= 1)
    => /\ ret[t].state = start
       /\ ret[t].state # NoState
       /\ ret[t].state = IF designated # NoState THEN designated ELSE firstFrom

\* C9: the AddTransition that registers the first transition of a machine
\* makes its source the start state; any other leaves the start state alone
C9_FirstAddSetsStart ==
  \A t \in Threads :
    (Returning(t, "AddTransition") /\ ret[t].kind = "void")
    => start = IF Count(pre[t].transitions) = 0 THEN From(call[t].t)
               ELSE pre[t].start

\* C10: after NewMachine applied WithTransitions options, the start state is
\* the source of the first transition of the first option that carried any
C10_FirstOptionWins ==
  (firstOptFrom # NoState /\ designated = NoState) => start = firstOptFrom

\* the states that are the source of a registered transition and bear the name
SourcesNamed(tr, name) ==
  {s \in StateIds : Name(s) = name /\ \E x \in Registered(tr) : From(x) = s}

\* C11: SetStart(name) succeeds iff some registered transition has a source
\* named name; on success start and current both become such a source, whatever
\* progress Updates had made; on failure it returns an error and start,
\* current, end states and transitions are unchanged (so a state that is only
\* a target cannot become the start state)
C11_SetStart ==
  \A t \in Threads :
    Returning(t, "SetStart")
    => LET S == SourcesNamed(pre[t].transitions, call[t].name) IN
         IF S # {}
         THEN /\ ret[t].err = NilErr
              /\ start \in S
              /\ curr = start
              /\ endStates = pre[t].endStates
              /\ transitions = pre[t].transitions
         ELSE /\ ret[t].err # NilErr
              /\ Snapshot = pre[t]

\* SetStart succeeds on a machine an Update had moved away from the state it
\* designates, while another name is borne by a target only
C11_Witness ==
  \E t \in Threads :
    /\ Returning(t, "SetStart")
    /\ ret[t].err = NilErr
    /\ pre[t].curr # NoState
    /\ pre[t].curr # start
    /\ \E n \in Names :
         /\ SourcesNamed(transitions, n) = {}
         /\ \E x \in Registered(transitions) :
              To(x) # NoState /\ Name(To(x)) = n

\* C12: Reset returns an error and changes nothing iff no start state was ever
\* set (the start state, once stored, is never cleared); otherwise, wherever
\* Updates had taken the machine, it makes Current() the start state and
\* leaves start, end states and transitions unchanged
C12_Reset ==
  /\ (firstOptFrom # NoState \/ designated # NoState) => start # NoState
  /\ \A t \in Threads :
       Returning(t, "Reset")
       => IF pre[t].start = NoState
          THEN /\ ret[t].err # NilErr
               /\ Snapshot = pre[t]
          ELSE /\ ret[t].err = NilErr
               /\ CurrentOf(curr, start) = start
               /\ start = pre[t].start
               /\ endStates = pre[t].endStates
               /\ transitions = pre[t].transitions

\* Reset brings back a machine that an Update had moved off its start state
C12_Witness ==
  \E t \in Threads :
    /\ Returning(t, "Reset")
    /\ ret[t].err = NilErr
    /\ updated
    /\ pre[t].curr # NoState
    /\ pre[t].curr # pre[t].start
    /\ curr = start

\* the names borne by the target of some registered transition
TargetNames(tr) ==
  {Name(To(x)) : x \in {y \in Registered(tr) : To(y) # NoState}}

\* indices of the requested names that no target bears
Unmatched(tr, names) == {k \in 1..Len(names) : names[k] \notin TargetNames(tr)}

\* C13: SetEndStates(names...) returns an error iff some requested name is not
\* the name of the target of a registered transition, the error naming the
\* first such name in the order given; it returns nil when every name matched
C13_SetEndStates ==
  \A t \in Threads :
    Returning(t, "SetEndStates")
    => LET U == Unmatched(pre[t].transitions, call[t].names) IN
         /\ ret[t].kind = "error"
         /\ ret[t].err =
              IF U = {} THEN NilErr
              ELSE "invalid state: "
                     \o call[t].names[CHOOSE k \in U : \A j \in U : k <= j]

\* C14: in every reachable state IsEndState() returns a boolean, true iff the
\* id of the state Current() returns (the start state while current is not
\* set) is in the end-state set, hence false while no end state was ever
\* configured; in particular right after a successful SetEndStates
C14_IsEndState ==
  \A t \in Threads :
    Returning(t, "IsEndState")
    => /\ ret[t].kind = "bool"
       /\ ret[t].value =
            (CurrentOf(pre[t].curr, pre[t].start) \in pre[t].endStates.ids)

\* C15: AddTransition called with a transition that lacks its source or its
\* target panics instead of returning, and transitions, start, current and
\* end states are exactly as before the call
C15_AddTransitionPanics ==
  \A t \in Threads :
    (Returning(t, "AddTransition")
       /\ (From(call[t].t) = NoState \/ To(call[t].t) = NoState))
    => /\ ret[t].kind = "panic"
       /\ Snapshot = pre[t]

\* a transition without target is refused by a machine that already has a
\* transition, a start state, a current state and end states
C15_Witness ==
  \E t \in Threads :
    /\ Returning(t, "AddTransition")
    /\ To(call[t].t) = NoState
    /\ Count(transitions) >= 1
    /\ curr # NoState
    /\ endStates.ids # {}

\* C16: every transition held in the transitions map has a source and a
\* target, whether AddTransition or a WithTransitions option registered it
C16_TransitionsComplete ==
  \A x \in Registered(transitions) : From(x) # NoState /\ To(x) # NoState

\* two distinct states that are source or target of a registered transition
\* bear the same name
NameClash(tr) ==
  \E a, b \in StateIds :
    /\ a # b
    /\ Name(a) = Name(b)
    /\ \E x \in Registered(tr) : From(x) = a \/ To(x) = a
    /\ \E x \in Registered(tr) : From(x) = b \/ To(x) = b

\* C17: Validate returns an error iff no start state is set, or a registered
\* transition lacks its source or its target, or two distinct states that are
\* source or target of registered transitions share a name; nil otherwise
C17_Validate ==
  \A t \in Threads :
    Returning(t, "Validate")
    => (ret[t].err # NilErr
          <=> \/ pre[t].start = NoState
              \/ \E x \in Registered(pre[t].transitions) :
                   From(x) = NoState \/ To(x) = NoState
              \/ NameClash(pre[t].transitions))

\* Validate rejects a machine that has a start state and complete transitions
\* for the name two of its states share
C17_Witness ==
  \E t \in Threads :
    /\ Returning(t, "Validate")
    /\ ret[t].err = "invalid: all state names must be unique"
    /\ Count(transitions) = 2

\* C18: after any sequence of AddTransition, SetStart, Reset, SetEndStates and
\* Update calls the current state, once set, is the start state or a state
\* that is source or target of some registered transition
C18_CurrentIsKnown ==
  curr # NoState
  => \/ curr = start
     \/ \E x \in Registered(transitions) : From(x) = curr \/ To(x) = curr

\* an Update has moved the machine to a state that is neither its start state
\* nor the source of any transition
C18_Witness ==
  /\ updated
  /\ curr # NoState
  /\ curr # start
  /\ \A x \in Registered(transitions) : From(x) # curr
  /\ \E t \in Threads : Returning(t, "Update") /\ ret[t].changed

\* C20: once the machine is shared, a step that writes transitions, endStates
\* or start is taken by the thread that holds the exclusive lock; a thread
\* holding only the read lock (IsEndState, Validate, Current) writes none of
\* them (while NewMachine applies its options nobody else has the machine)
C20_LockDiscipline ==
  [][(transitions' # transitions \/ endStates' # endStates \/ start' # start)
       => \/ constructing
          \/ \E t \in Threads :
               /\ mu.w = t
               /\ pc[t] \in {"locked", "loop"}
               /\ pc'[t] # pc[t]]_vars

\* C19: under any interleaving of NewState and State.When the ids mkID
\* returns are 1, 2, 3, ... without gap, in the order in which the callers
\* passed through the critical section, so no id is returned twice and no
\* state shares its id with a transition
C19_Ids ==
  /\ \A k \in 1..Len(log) : log[k].done => log[k].id = k
  /\ \A j, k \in 1..Len(log) :
       (j # k /\ log[j].done /\ log[k].done) => log[j].id # log[k].id
  /\ gid = Cardinality({k \in 1..Len(log) : log[k].done})
  /\ \A t \in Threads : ipc[t] = "recv" => iloc[t].id = log[iloc[t].k].id

\* a state and a transition got their ids, and a caller waits at the send
\* while another is still inside mkID with its id
C19_Witness ==
  /\ \E t, u \in Threads : ipc[t] = "send" /\ ipc[u] = "recv" /\ iloc[u].id >= 2
  /\ \E j, k \in 1..Len(log) :
       /\ log[j].done /\ log[j].kind = "state"
       /\ log[k].done /\ log[k].kind = "edge"

\* C26: offset(idx) returns (idx / 64, idx % 64) for every idx from 0 to 4096
\* inclusive and panics for every greater idx
C26_Offset ==
  rcall.fn = "offset"
  => IF rcall.idx <= 4096
     THEN /\ ~rres.panic
          /\ rres.idx * 64 + rres.offs = rcall.idx
          /\ rres.offs \in 0..63
     ELSE rres.panic

\* offset was handed 4096 itself and returned word 64, offset 0
C26_Witness ==
  /\ rcall.fn = "offset"
  /\ rcall.idx = 4096
  /\ ~rres.panic
  /\ rres.idx = 64
  /\ rres.offs = 0

\* index i is closed in register r
IsClosed(r, i) == (i % 64) \in r[i \div 64]

\* the bits of word w that stand for the indices of S
Bits(S, w) == {i % 64 : i \in {j \in S : j \div 64 = w}}

\* the indices a register can hold
Held == 0..4095

Elems(I) == {I[k] : k \in 1..Len(I)}

Distinct(I) == \A j, k \in 1..Len(I) : j # k => I[j] # I[k]

\* the entries of I that are closed (open) in r, in the order of I
RECURSIVE Those(_, _, _)
Those(I, r, closed) ==
  IF I = <<>> THEN <<>>
  ELSE IF IsClosed(r, Head(I)) = closed
       THEN <<Head(I)>> \o Those(Tail(I), r, closed)
       ELSE Those(Tail(I), r, closed)

\* what C27 says of a call of registerToggle that returned
ToggleAsClaimed ==
  /\ \A w \in 0..63 :
       LET B == Bits(Elems(rcall.indices), w) IN
         rres.r[w] = (rcall.r[w] \ B) \cup (B \ rcall.r[w])
  /\ rres.closed = Those(rcall.indices, rcall.r, FALSE)
  /\ rres.opened = Those(rcall.indices, rcall.r, TRUE)
  /\ registerToggle(rres.r, rcall.indices).r = rcall.r

\* C27 as claimed: registerToggle flips exactly the listed indices, returns as
\* closed those that were open before and as opened those that were closed
\* before, in input order, so that the same toggle made twice restores the
\* register
C27_ToggleAnyList ==
  (rcall.fn = "registerToggle" /\ ~rres.panic) => ToggleAsClaimed

\* C27 as amended: for a list of distinct indices below 4096 registerToggle
\* returns, having flipped exactly the listed indices, with closed the listed
\* indices that were open and opened those that were closed, in input order,
\* and the same toggle made again restores the register; it panics when an
\* index of the list is 4096 or more
C27_ToggleDistinct ==
  rcall.fn = "registerToggle"
  => /\ rres.panic <=> (\E i \in Elems(rcall.indices) : i \notin Held)
     /\ (~rres.panic /\ Distinct(rcall.indices)) => ToggleAsClaimed

\* a toggle of two distinct indices, one open and one closed before, in two
\* different words
C27_Witness ==
  /\ rcall.fn = "registerToggle"
  /\ ~rres.panic
  /\ Len(rcall.indices) = 2
  /\ Len(rres.closed) = 1
  /\ Len(rres.opened) = 1
  /\ rres.closed[1] \div 64 # rres.opened[1] \div 64

\* C28: registerClose(r, I) returns a register in which every index of I is
\* closed and every other index is as in r; registerOpen(r, I) one in which
\* every index of I is open and every other index is as in r (both panic
\* exactly when an index of I is 4096 or more); registerAllClosed and
\* registerAllOpened return true for the empty list and false as soon as one
\* listed index is in the other state
C28_CloseOpenFrame ==
  /\ rcall.fn \in {"registerClose", "registerOpen"}
     => /\ rres.panic <=> (\E i \in Elems(rcall.indices) : i \notin Held)
        /\ ~rres.panic
           => \A w \in 0..63 :
                LET B == Bits(Elems(rcall.indices), w) IN
                  rres.r[w] = IF rcall.fn = "registerClose"
                              THEN rcall.r[w] \cup B
                              ELSE rcall.r[w] \ B
  /\ (rcall.fn \in {"registerAllClosed", "registerAllOpened"} /\ ~rres.panic)
     => /\ rcall.indices = <<>> => rres.v
        /\ rres.v = \A i \in Elems(rcall.indices) :
                      IsClosed(rcall.r, i) = (rcall.fn = "registerAllClosed")

\* registerClose closed an open index and left alone a listed index that was
\* closed and an unlisted one that was closed, in a register not all closed
C28_Witness ==
  /\ rcall.fn = "registerClose"
  /\ ~rres.panic
  /\ Len(rres.out) = 1
  /\ Len(rcall.indices) = 2
  /\ \E i \in TestIdx \ Elems(rcall.indices) : i \in Held /\ IsClosed(rres.r, i)
  /\ \E i \in TestIdx \ Elems(rcall.indices) : i \in Held /\ ~IsClosed(rres.r, i)

\* the number of notifications a Close or Open c has to start for change ch
\* when the register is r
Announced(c, r, ch) ==
  IF /\ ch.closed = (c.op = "Close")
     /\ ch.state \in Elems(c.indices)
     /\ IsClosed(r, ch.state) # ch.closed
  THEN 1 ELSE 0

\* C21: a Close (Open) that returns starts exactly one notification, with
\* closed = true (false), for each listed condition that was open (closed)
\* when it took the lock and none for any other; afterwards every listed
\* condition is closed (open), and a Close (Open) that finds them all so
\* leaves the register as it is and starts no notification
C21_CloseOpenNotify ==
  [][\A t \in Threads :
       ( /\ spc[t] = "store"
         /\ spc'[t] = "idle"
         /\ scall[t].op \in {"Close", "Open"}
         /\ ~sloc[t].panic )
       => /\ sloc[t].pre = reg
          /\ \A ch \in Changes :
               changeChan'[ch] = changeChan[ch] + Announced(scall[t], reg, ch)
          /\ \A i \in Elems(scall[t].indices) :
               IsClosed(reg', i) = (scall[t].op = "Close")
          /\ (\A i \in Elems(scall[t].indices) :
                IsClosed(reg, i) = (scall[t].op = "Close"))
             => (reg' = reg /\ changeChan' = changeChan)]_vars

\* a Close of 0 and 64 has returned: 0 was closed before, 64 was not, and
\* the one notification it started is that 64 was closed
C21_Witness ==
  /\ spc[Caller] = "idle"
  /\ scall[Caller] = [op |-> "Close", indices |-> <<0, 64>>,
                      cancelled |-> FALSE]
  /\ IsClosed(sloc[Caller].pre, 0)
  /\ ~IsClosed(sloc[Caller].pre, 64)
  /\ sloc[Caller].notes = <<[state |-> 64, closed |-> TRUE]>>
  /\ IsClosed(reg, 64)

\* C23: no step of a Close, Open or Toggle whose context is already
\* cancelled changes the register, takes the lock or starts a notification:
\* the call returns at once
C23_CancelledFrame ==
  [][\A t \in Threads :
       LET c == IF spc[t] = "idle" THEN scall'[t] ELSE scall[t] IN
         ( /\ (spc'[t] # spc[t] \/ scall'[t] # scall[t] \/ sloc'[t] # sloc[t])
           /\ c.op # "none"
           /\ c.cancelled )
         => /\ reg' = reg
            /\ changeChan' = changeChan
            /\ locker' = locker
            /\ spc'[t] = "idle"]_vars

\* an Open of 0 and 64 with a cancelled context has returned, 0 being closed
C23_Witness ==
  /\ spc[Caller] = "idle"
  /\ scall[Caller] = [op |-> "Open", indices |-> <<0, 64>>,
                      cancelled |-> TRUE]
  /\ IsClosed(reg, 0)

\* C24: at most one call is between taking and releasing the lock, it works
\* on the register that is current, and whenever none is the register and
\* the notifications started are those of the calls run one at a time in
\* the order in which they took the lock
C24_Serializable ==
  /\ Cardinality({t \in Threads : spc[t] = "store"}) = 1 - locker
  /\ locker \in {0, 1}
  /\ \A t \in Threads : spc[t] = "store" => sloc[t].pre = reg
  /\ (\A t \in Threads : spc[t] # "store")
       => (reg = linReg /\ changeChan = linChan)

\* two calls were waiting for the lock at once and both have returned; the
\* second toggled back what the first had closed
C24_Witness ==
  /\ \A t \in Threads : spc[t] = "idle" /\ scall[t] # NoCall
  /\ \E t \in Threads : sloc[t].notes = <<[state |-> 0, closed |-> TRUE]>>
  /\ \E t \in Threads : sloc[t].notes = <<[state |-> 0, closed |-> FALSE]>>
  /\ Total(changeChan, Changes) >= 2

\* C25: for the change the goroutine of Run received last it made exactly
\* one handler call: the handler registered for the condition, with the
\* closed flag, if there is one, else the default handler with the condition
\* and the closed flag
C25_Dispatch ==
  handled.change # NoChange =>
    LET c == handled.change IN
      /\ Len(handled.calls) = 1
      /\ handled.calls[1] =
           IF changeMap[c.state] # NoHandler
           THEN [handler |-> changeMap[c.state], closed |-> c.closed]
           ELSE [handler |-> defaultChange, state |-> c.state,
                 closed |-> c.closed]

\* a change of a condition with a handler of its own was delivered while a
\* default handler was registered too
C25_Witness ==
  /\ handled.change # NoChange
  /\ changeMap[handled.change.state] = "h1"
  /\ defaultChange = "h2"

\* C22: once Run was called, a change handed to pushChange is never left
\* without a goroutine of Run that can still receive it: were it, it would
\* never be delivered to a handler
C22_NeverStranded ==
  (Pending > 0 /\ \E x \in RunCtxs : runs[x] # "none")
    => \E x \in RunCtxs : runs[x] \in {"running", "cancelled"}

C29_ReentrantDeadlock ==
  [][\A t \in Threads :
       nested[t] # NoCall
         => /\ pc[t] = "loop"
            /\ mu.w = t
            /\ nested'[t] = nested[t]
            /\ pc'[t] = "loop"
            /\ loc'[t] = loc[t]
            /\ ret'[t] = ret[t]
            /\ mu'.w = t]_vars

\* a guard has called Current while another thread is waiting for the lock
C29_Witness ==
  \E t, u \in Threads :
    /\ nested[t] = [op |-> "Current"]
    /\ pc[t] = "loop"
    /\ pc[u] = "call"

\* what an Update with input x that starts at state c with the transitions ts
\* does, whether or not c is an end state: ok, err and target of the first
\* guard that fails or matches, and the guards evaluated
Decisive(ts, x) ==
  {k \in 1..Len(ts) : edge[ts[k]].f[x].err # NilErr \/ edge[ts[k]].f[x].ok}

FirstOf(D) == CHOOSE k \in D : \A j \in D : k <= j

\* C31: an Update that starts at an end state evaluates the transitions of
\* that state in order and ends on the first guard that fails or matches,
\* returning and moving as it would from any other state, and it leaves the
\* end-state set as it is
C31_EndStateNoBarrier ==
  \A t \in Threads :
    ( /\ pc[t] = "ret"
      /\ call[t].op = "Update"
      /\ ~call[t].cancelled
      /\ Resolve(pre[t].curr, pre[t].start) \in pre[t].endStates.ids )
    => LET c == Resolve(pre[t].curr, pre[t].start)
           ts == pre[t].transitions.m[c]
           D == Decisive(ts, call[t].value)
       IN /\ endStates = pre[t].endStates
          /\ IF D = {}
             THEN /\ loc[t].evald = ts
                  /\ ret[t] = [kind |-> "update", changed |-> FALSE,
                               err |-> NilErr]
                  /\ curr = pre[t].curr
             ELSE LET k == FirstOf(D)
                      g == edge[ts[k]].f[call[t].value]
                  IN /\ loc[t].evald = SubSeq(ts, 1, k)
                     /\ IF g.err # NilErr
                        THEN /\ ret[t] = [kind |-> "update",
                                          changed |-> FALSE, err |-> g.err]
                             /\ curr = pre[t].curr
                        ELSE /\ ret[t] = [kind |-> "update",
                                          changed |-> TRUE, err |-> NilErr]
                             /\ curr = IF edge[ts[k]].to # NoState
                                       THEN edge[ts[k]].to ELSE pre[t].curr

\* an Update has left the end state 2 for state 1
C31_Witness ==
  /\ pc[Caller] = "ret"
  /\ call[Caller].op = "Update"
  /\ pre[Caller].curr = 2
  /\ 2 \in pre[Caller].endStates.ids
  /\ ret[Caller] = [kind |-> "update", changed |-> TRUE, err |-> NilErr]
  /\ curr = 1

\* C32: an Update whose context is not cancelled, on a machine that has
\* neither a current nor a start state, returns false and the error that the
\* machine has no start state, evaluates no guard and leaves every field of
\* the machine as it was
C32_NoStateUpdate ==
  \A t \in Threads :
    ( /\ pc[t] = "ret"
      /\ call[t].op = "Update"
      /\ ~call[t].cancelled
      /\ pre[t].curr = NoState
      /\ pre[t].start = NoState )
    => /\ ret[t] = [kind |-> "update", changed |-> FALSE,
                    err |-> "machine has no start state"]
       /\ loc[t].evald = <<>>
       /\ curr = pre[t].curr
       /\ start = pre[t].start
       /\ endStates = pre[t].endStates
       /\ transitions = pre[t].transitions

\* an Update has returned on a machine that holds a transition but neither
\* a current nor a start state
C32_Witness ==
  /\ pc[Caller] = "ret"
  /\ call[Caller].op = "Update"
  /\ ~call[Caller].cancelled
  /\ curr = NoState
  /\ start = NoState
  /\ \E s \in StateIds : transitions.m[s] # <<>>
  /\ ret[Caller].err = "machine has no start state"

\* C33: whatever its outcome, an Update leaves the start state, the
\* end-state set and the registered transitions with their order as they
\* were when it took the lock
C33_UpdateFrame ==
  \A t \in Threads :
    (pc[t] \in {"locked", "loop", "ret"} /\ call[t].op = "Update")
      => /\ start = pre[t].start
         /\ endStates = pre[t].endStates
         /\ transitions = pre[t].transitions

\* an Update has moved the machine from state 1 to state 2, the start state
\* being 1
C33_Witness ==
  /\ pc[Caller] = "ret"
  /\ call[Caller].op = "Update"
  /\ ret[Caller] = [kind |-> "update", changed |-> TRUE, err |-> NilErr]
  /\ start = 1
  /\ curr = 2
  /\ endStates.ids # {}

\* C34: once the machine is built, a start state that is set stays set, and
\* it changes only in the step in which a SetStart returns nil
C34_StartStable ==
  [][(~constructing /\ start # NoState)
       => /\ start' # NoState
          /\ start' # start
               => \E t \in Threads :
                    /\ pc[t] = "locked"
                    /\ call[t].op = "SetStart"
                    /\ pc'[t] = "ret"
                    /\ ret'[t] = [kind |-> "error", err |-> NilErr]]_vars

\* an AddTransition whose source is not the start state has returned on a
\* machine whose start state is set
C34_Witness ==
  /\ pc[Caller] = "ret"
  /\ call[Caller].op = "AddTransition"
  /\ ret[Caller].kind = "void"
  /\ start # NoState
  /\ edge[call[Caller].t].from # start

\* C35: no step removes a state from the end-state set, and a SetEndStates
\* that returns an error for a name it did not match has still marked the
\* targets, among the registered transitions, that bear a requested name
C35_EndStatesGrow ==
  [][/\ endStates.ids \subseteq endStates'.ids
     /\ \A t \in Threads :
          ( /\ pc[t] = "locked"
            /\ call[t].op = "SetEndStates"
            /\ pc'[t] = "ret"
            /\ ret'[t].kind = "error"
            /\ ret'[t].err # NilErr )
          => \A x \in Registered(transitions) :
               (\E k \in 1..Len(call[t].names) :
                  machineState[edge[x].to].name = call[t].names[k])
                 => edge[x].to \in endStates'.ids]_vars

\* SetEndStates("S2", "S9") has returned an error for S9 and state 2 is an
\* end state
C35_Witness ==
  /\ pc[Caller] = "ret"
  /\ call[Caller].op = "SetEndStates"
  /\ call[Caller].names = <<"S2", "S9">>
  /\ ret[Caller].kind = "error"
  /\ ret[Caller].err # NilErr
  /\ 2 \in endStates.ids
  /\ 2 \notin pre[Caller].endStates.ids

\* C36: when an Update returns (true, nil), the current state, as Current
\* would return it there and then, is the target of the transition whose
\* guard matched, the last one the Update evaluated
C36_ChangedIsAtTarget ==
  \A t \in Threads :
    ( /\ pc[t] = "ret"
      /\ call[t].op = "Update"
      /\ ret[t] = [kind |-> "update", changed |-> TRUE, err |-> NilErr] )
    => /\ loc[t].evald # <<>>
       /\ Resolve(curr, start) = edge[loc[t].evald[Len(loc[t].evald)]].to

\* C38: a register function handed only indices that offset accepts (none
\* above 4096) completes: it does not access the register out of bounds
C38_AcceptedIsInside ==
  ( /\ rcall.fn \in {"registerClose", "registerOpen", "registerToggle",
                     "registerAllClosed", "registerAllOpened"}
    /\ \A k \in 1..Len(rcall.indices) : rcall.indices[k] <= 4096 )
  => ~rres.panic

\* the places in the list of changes ns that tell condition i is closed (b
\* true) or open (b false)
NotesOf(ns, i, b) ==
  {k \in 1..Len(ns) : ns[k] = [state |-> i, closed |-> b]}

\* the last call is a Toggle of distinct conditions the register holds, made
\* by a thread whose call before was the same Toggle, and it has returned
ToggledTwice ==
  /\ before # NoBefore
  /\ spc[before.thread] = "idle"
  /\ Distinct(before.call.indices)
  /\ \A k \in 1..Len(before.call.indices) : before.call.indices[k] < maxReg

\* C37: Toggle applied twice in sequence to the same distinct conditions
\* restores the register and starts, for each of the conditions, exactly two
\* notifications, one of each polarity
C37_ToggleTwiceRestores ==
  ToggledTwice =>
    /\ reg = before.pre
    /\ LET all == before.notes \o sloc[before.thread].notes IN
         /\ Len(all) = 2 * Len(before.call.indices)
         /\ \A i \in Elems(before.call.indices) :
              /\ Cardinality(NotesOf(all, i, TRUE)) = 1
              /\ Cardinality(NotesOf(all, i, FALSE)) = 1
              /\ Cardinality(NotesOf(before.notes, i, TRUE)
                               \cup NotesOf(before.notes, i, FALSE)) = 1

C37_Witness ==
  /\ ToggledTwice
  /\ before.call.indices = <<0, 64>>
  /\ IsClosed(before.pre, 64) /\ ~IsClosed(before.pre, 0)
  /\ reg = before.pre

\* C39: Close, Open and Toggle terminate: a call that has begun returns and
\* has released the lock, whether or not Run was started, its context
\* cancelled or any change received
C39_CallsReturn ==
  (spc[Caller] # "idle") ~> (spc[Caller] = "idle" /\ locker = 1)

C39_Witness ==
  /\ spc[Caller] = "idle"
  /\ scall[Caller] # NoCall /\ ~scall[Caller].cancelled
  /\ sloc[Caller].notes # <<>>
  /\ Pending = Len(sloc[Caller].notes)
  /\ locker = 1
  /\ \A x \in RunCtxs : runs[x] = "none"

\* C40: the notifications about one condition are handled in the order the
\* changes were applied: once the notification of an Open(c) that opened c
\* has been handled, no notification that c was closed, which is of an
\* earlier call, is still waiting to be handled
C40_HandledInOrder ==
  \A c \in {x \in Conds : x < maxReg} :
    ( /\ \A t \in Threads : spc[t] = "idle"
      /\ scall[Caller] = [op |-> "Open", indices |-> <<c>>,
                          cancelled |-> FALSE]
      /\ sloc[Caller].notes = <<[state |-> c, closed |-> FALSE]>>
      /\ changeChan[[state |-> c, closed |-> FALSE]] = 0 )
    => changeChan[[state |-> c, closed |-> TRUE]] = 0

====
